---- MODULE Spec2Model ----
(***************************************************************************)
(* Model of julio.go: a Rows cursor created by Julio.Get, its two          *)
(* goroutines (selectloop = HistoricalReader, notifyloop =                 *)
(* LiveTailListener), Rows.Close, the consumer of Rows.C, and the store    *)
(* (table + insert trigger + notification channel) they talk to.           *)
(***************************************************************************)
EXTENDS Integers, Sequences, FiniteSets, TLC

(* ------------------------------ bounds --------------------------------- *)
\* rows the table may hold in total (initial content plus Add calls)
MaxRows == 2
\* documents are the integers 1..MaxData
MaxData == 2
\* Filter.Offset ranges over 0..MaxOffset
MaxOffset == 1
\* capacity of Rows.C in the model (make(chan Row, 1024) in the source)
CapC == 1
\* capacity of Rows.backlog in the model (make(chan Row, 1024) in the source)
CapB == 1
\* number of Close() calls made on one cursor
MaxCloseCalls == 2
\* foreign (non-trigger) notifications published on the channel
MaxForeign == 1
MaxGets == 2

(* --------------------------- pure functions ---------------------------- *)
DigitChars == <<"0", "1", "2", "3", "4", "5", "6", "7", "8", "9">>

DigitVal(c) == (CHOOSE i \in 1..10 : DigitChars[i] = c) - 1

IsDigit(c) == \E i \in 1..10 : DigitChars[i] = c

\* NEW.id::text and json.Marshal of an integer: the decimal text of n >= 0
RECURSIVE Itoa(_)
Itoa(n) ==
    IF n < 10 THEN <<DigitChars[n + 1]>>
    ELSE Itoa(n \div 10) \o <<DigitChars[(n % 10) + 1]>>

RECURSIVE DigitsValue(_)
DigitsValue(s) ==
    IF s = <<>> THEN 0
    ELSE 10 * DigitsValue(SubSeq(s, 1, Len(s) - 1)) + DigitVal(s[Len(s)])

\* strconv.Atoi: optional sign, then one or more decimal digits
Atoi(s) ==
    LET signed == s # <<>> /\ s[1] \in {"+", "-"}
        body   == IF signed THEN Tail(s) ELSE s
    IN  IF body = <<>> \/ \E i \in 1..Len(body) : ~IsDigit(body[i])
        THEN [ok |-> FALSE, val |-> 0]
        ELSE [ok |-> TRUE,
              val |-> IF signed /\ s[1] = "-" THEN 0 - DigitsValue(body)
                      ELSE DigitsValue(body)]

\* json.Marshal(v) for the integer documents of the model
Marshal(v) == Itoa(v)

\* the Filter's predicate (Sqlizer), evaluated by the store on a row:
\* "data >= p" over the stored JSON number
Match(row, p) == Atoi(row.Data).val >= p

\* the row of smallest id in a non-empty set of rows
MinRow(S) == CHOOSE r \in S : \A q \in S : r.ID <= q.ID

\* ORDER BY id
RECURSIVE OrderById(_)
OrderById(S) ==
    IF S = {} THEN <<>>
    ELSE LET m == MinRow(S) IN <<m>> \o OrderById(S \ {m})

\* OFFSET n
SkipRows(s, n) == IF n >= Len(s) THEN <<>> ELSE SubSeq(s, n + 1, Len(s))

\* SELECT id, data FROM table WHERE <pred> ORDER BY id OFFSET <off>
Query_NoOffset(tbl, p, off) ==
    OrderById({r \in tbl : Match(r, p)})

Query(tbl, p, off) ==
    SkipRows(OrderById({r \in tbl : Match(r, p)}), off)

\* WHERE id = <id> AND <pred> ORDER BY id
QueryById_NoPred(tbl, id, p) ==
    OrderById({r \in tbl : r.ID = id})

QueryById(tbl, id, p) ==
    OrderById({r \in tbl : r.ID = id /\ Match(r, p)})

\* a query result as the goroutine that ran it sees it; origin records which
\* query produced the row ("hist": selectloop's scan, "live": notifyloop's
\* re-check) and is not part of the Go Row
Tagged(s, o) == [i \in 1..Len(s) |-> [ID |-> s[i].ID, Data |-> s[i].Data, origin |-> o]]

Untagged(s) == [i \in 1..Len(s) |-> [ID |-> s[i].ID, Data |-> s[i].Data]]

NoRow == [ID |-> 0, Data |-> <<>>, origin |-> "none"]

(* ------------------------------- state --------------------------------- *)
VARIABLES
    table,        \* the store's table: a set of [ID, Data]
    filter,       \* Rows.filter: [Pred, Offset, Updates]
    C,            \* Rows.C: rows buffered in the output channel
    closedC,      \* Rows.C has been closed
    closerC,      \* who closed Rows.C: "none", "selectloop", "Close", "notifyloop"
    backlog,      \* Rows.backlog: rows buffered
    closedB,      \* Rows.backlog has been closed
    doneClosed,   \* Rows.done has been closed
    Err,          \* Rows.Err: "nil" or the name of the error stored; both
                  \* goroutines assign it without synchronisation, each
                  \* assignment is one step here
    pcS,          \* selectloop's position
    hrows,        \* selectloop: result set of the historical query
    hpos,         \* selectloop: next row of hrows that rows.Next() yields
    histOpen,     \* selectloop: the historical *sql.Rows handle is open
    rowS,         \* selectloop: the row it is about to send
    pcN,          \* notifyloop's position
    listener,     \* pq listener: "none", "listening", "failed", "closed"
    notifyQ,      \* listener.Notify: payloads not yet received
    lrows,        \* notifyloop: result set of the current re-check query
    lpos,         \* notifyloop: next row of lrows
    liveOpen,     \* notifyloop: number of re-check *sql.Rows handles still open
    event,        \* notifyloop: the row it is about to send
    received,     \* rows the consumer has read from Rows.C, in order
    closeCalls,   \* Close() calls made so far
    closePanics,  \* panics raised by close(r.done) and recovered inside Close
    escaped,      \* a panic left Close()
    foreign,      \* foreign notifications published so far
    faulted,      \* a store operation failed or a malformed payload was published
    snapN,        \* number of rows the table held when the historical query ran
    insDrain,     \* ids inserted while selectloop was in its drain phase
    insSub,       \* ids inserted in the drain phase with the listener subscribed
    gets,         \* Get calls made so far with this filter
    prevOut,      \* what the consumer read from the previous Get's cursor
    prevSnapN,    \* number of rows the table held at the previous Get's query
    closedEarly,  \* the first Close() came before selectloop reached its drain loop
    scanned,      \* selectloop's historical scan ended without error
    pushedB       \* every row notifyloop has sent on Rows.backlog, in order

vars == <<table, filter, C, closedC, closerC, backlog, closedB, doneClosed, Err,
          pcS, hrows, hpos, histOpen, rowS, pcN, listener, notifyQ, lrows, lpos,
          liveOpen, event, received, closeCalls, closePanics, escaped, foreign,
          faulted, snapN, insDrain, insSub, gets, prevOut, prevSnapN,
          closedEarly, scanned, pushedB>>

\* the fields of Rows and what its goroutines hold
cursorVars == <<C, closedC, closerC, backlog, closedB, doneClosed, Err, pcS, hrows,
                hpos, histOpen, rowS, pcN, listener, notifyQ, lrows, lpos,
                liveOpen, event>>

storeVars == <<table, snapN, insDrain, insSub>>
selVars == <<pcS, hrows, hpos, histOpen, rowS>>
notVars == <<pcN, listener, lrows, lpos, liveOpen, event>>
closeVars == <<closeCalls, closePanics, escaped, closedEarly>>
getVars == <<gets, prevOut, prevSnapN>>

\* tables reachable by n calls of Add on an empty table
RECURSIVE TablesOf(_)
TablesOf(n) ==
    IF n = 0 THEN {{}}
    ELSE {t \cup {[ID |-> n, Data |-> Marshal(v)]} : t \in TablesOf(n - 1), v \in 1..MaxData}

Filters == [Pred : 1..MaxData, Offset : 0..MaxOffset, Updates : BOOLEAN]

\* the state in which Get returns: channels made, both goroutines started
Init ==
    /\ table \in UNION {TablesOf(n) : n \in 0..MaxRows}
    /\ filter \in Filters
    /\ C = <<>> /\ closedC = FALSE /\ closerC = "none"
    /\ backlog = <<>> /\ closedB = FALSE
    /\ doneClosed = FALSE
    /\ Err = "nil"
    /\ pcS = "query" /\ hrows = <<>> /\ hpos = 1 /\ histOpen = FALSE /\ rowS = NoRow
    /\ pcN = "start" /\ listener = "none" /\ notifyQ = <<>>
    /\ lrows = <<>> /\ lpos = 1 /\ liveOpen = 0 /\ event = NoRow
    /\ received = <<>>
    /\ closeCalls = 0 /\ closePanics = 0 /\ escaped = FALSE
    /\ foreign = 0 /\ faulted = FALSE
    /\ snapN = 0 /\ insDrain = {} /\ insSub = {}
    /\ gets = 1 /\ prevOut = <<>> /\ prevSnapN = 0
    /\ closedEarly = FALSE /\ scanned = FALSE /\ pushedB = <<>>

(* ---------------------- selectloop (HistoricalReader) ------------------- *)
\* julio.go 213-229: build the historical query and run it
S_Query_Unordered ==
    /\ pcS = "query"
    /\ \E out \in {"ok", "tosql", "query"} :
        IF out = "ok"
        THEN /\ LET q == Tagged(Query(table, filter.Pred, filter.Offset), "hist")
                    R == {q[i] : i \in 1..Len(q)}
                IN  hrows' \in {t \in [1..Len(q) -> R] : \A x \in R : \E i \in 1..Len(q) : t[i] = x}
             /\ hpos' = 1
             /\ histOpen' = TRUE
             /\ snapN' = Cardinality(table)
             /\ pcS' = "next"
             /\ UNCHANGED <<Err, faulted>>
        ELSE /\ Err' = IF out = "tosql" THEN "S_tosql" ELSE "S_query"
             /\ faulted' = TRUE
             /\ pcS' = "ret"
             /\ UNCHANGED <<hrows, hpos, histOpen, snapN>>
    /\ UNCHANGED <<table, insDrain, insSub, filter, getVars, scanned, pushedB, C, closedC,
                   closerC, backlog, closedB, doneClosed, rowS, notVars, notifyQ,
                   received, closeVars, foreign>>

S_Query ==
    /\ pcS = "query"
    /\ \E out \in {"ok", "tosql", "query"} :
        IF out = "ok"
        THEN /\ hrows' = Tagged(Query(table, filter.Pred, filter.Offset), "hist")
             /\ hpos' = 1
             /\ histOpen' = TRUE
             /\ snapN' = Cardinality(table)
             /\ pcS' = "next"
             /\ UNCHANGED <<Err, faulted>>
        ELSE /\ Err' = IF out = "tosql" THEN "S_tosql" ELSE "S_query"
             /\ faulted' = TRUE
             /\ pcS' = "ret"
             /\ UNCHANGED <<hrows, hpos, histOpen, snapN>>
    /\ UNCHANGED <<table, insDrain, insSub, filter, getVars, scanned, pushedB, C, closedC, closerC, backlog,
                   closedB, doneClosed, rowS, notVars, notifyQ, received, closeVars,
                   foreign>>

\* julio.go 231-237 and 244-250: rows.Next(), rows.Scan(), and after the loop
\* rows.Close() and rows.Err()
S_Next ==
    /\ pcS = "next"
    /\ \E out \in {"row", "scanErr", "end", "rowsErr"} :
        /\ out \in {"row", "scanErr"} => hpos <= Len(hrows)
        /\ out = "end" => hpos > Len(hrows)
        /\ CASE out = "row" ->
                  /\ rowS' = hrows[hpos]
                  /\ hpos' = hpos + 1
                  /\ pcS' = "push"
                  /\ UNCHANGED <<Err, faulted, histOpen, scanned>>
             [] out = "scanErr" ->
                  /\ Err' = "S_scan"
                  /\ faulted' = TRUE
                  /\ pcS' = "ret"
                  /\ UNCHANGED <<rowS, hpos, histOpen, scanned>>
             [] out = "end" ->
                  /\ histOpen' = FALSE
                  /\ scanned' = TRUE
                  /\ pcS' = "drain"
                  /\ UNCHANGED <<Err, faulted, rowS, hpos>>
             [] out = "rowsErr" ->
                  /\ histOpen' = FALSE
                  /\ Err' = "S_rows"
                  /\ faulted' = TRUE
                  /\ pcS' = "ret"
                  /\ UNCHANGED <<rowS, hpos, scanned>>
    /\ UNCHANGED <<storeVars, filter, getVars, pushedB, C, closedC, closerC, backlog, closedB,
                   doneClosed, hrows, notVars, notifyQ, received, closeVars, foreign>>

\* julio.go 239-243: select { case r.C <- row: ; case <-r.done: return }
S_PushC_SetsErr ==
    /\ pcS = "push"
    /\ \/ /\ closedC
          /\ pcS' = "panic"
          /\ UNCHANGED <<C, Err>>
       \/ /\ ~closedC /\ Len(C) < CapC
          /\ C' = Append(C, rowS)
          /\ pcS' = "next"
          /\ UNCHANGED Err
       \/ /\ doneClosed
          /\ Err' = "S_cancelled"
          /\ pcS' = "ret"
          /\ UNCHANGED C
    /\ UNCHANGED <<storeVars, filter, getVars, scanned, pushedB, closedC, closerC, backlog, closedB, doneClosed,
                   hrows, hpos, histOpen, rowS, notVars, notifyQ, received, closeVars,
                   foreign, faulted>>

S_PushC ==
    /\ pcS = "push"
    /\ \/ /\ closedC
          /\ pcS' = "panic"
          /\ UNCHANGED C
       \/ /\ ~closedC /\ Len(C) < CapC
          /\ C' = Append(C, rowS)
          /\ pcS' = "next"
       \/ /\ doneClosed
          /\ pcS' = "ret"
          /\ UNCHANGED C
    /\ UNCHANGED <<storeVars, filter, getVars, scanned, pushedB, closedC, closerC, backlog, closedB, doneClosed,
                   Err, hrows, hpos, histOpen, rowS, notVars, notifyQ, received,
                   closeVars, foreign, faulted>>

\* julio.go 252: for row := range r.backlog
S_Drain_WatchesDone ==
    /\ pcS = "drain"
    /\ \/ /\ backlog # <<>>
          /\ rowS' = Head(backlog)
          /\ backlog' = Tail(backlog)
          /\ pcS' = "drainpush"
       \/ /\ backlog = <<>> /\ closedB
          /\ pcS' = "ret"
          /\ UNCHANGED <<rowS, backlog>>
       \/ /\ doneClosed
          /\ pcS' = "ret"
          /\ UNCHANGED <<rowS, backlog>>
    /\ UNCHANGED <<storeVars, filter, getVars, scanned, pushedB, C, closedC, closerC,
                   closedB, doneClosed, Err, hrows, hpos, histOpen, notVars, notifyQ,
                   received, closeVars, foreign, faulted>>

S_Drain_NoBlock ==
    /\ pcS = "drain"
    /\ IF backlog # <<>>
       THEN /\ rowS' = Head(backlog)
            /\ backlog' = Tail(backlog)
            /\ pcS' = "drainpush"
       ELSE /\ pcS' = "ret"
            /\ UNCHANGED <<rowS, backlog>>
    /\ UNCHANGED <<storeVars, filter, getVars, scanned, pushedB, C, closedC, closerC, closedB, doneClosed, Err,
                   hrows, hpos, histOpen, notVars, notifyQ, received, closeVars,
                   foreign, faulted>>

S_Drain ==
    /\ pcS = "drain"
    /\ \/ /\ backlog # <<>>
          /\ rowS' = Head(backlog)
          /\ backlog' = Tail(backlog)
          /\ pcS' = "drainpush"
       \/ /\ backlog = <<>> /\ closedB
          /\ pcS' = "ret"
          /\ UNCHANGED <<rowS, backlog>>
    /\ UNCHANGED <<storeVars, filter, getVars, scanned, pushedB, C, closedC, closerC, closedB, doneClosed, Err,
                   hrows, hpos, histOpen, notVars, notifyQ, received, closeVars,
                   foreign, faulted>>

\* julio.go 253: r.C <- row
S_DrainPush ==
    /\ pcS = "drainpush"
    /\ \/ /\ closedC
          /\ pcS' = "panic"
          /\ UNCHANGED C
       \/ /\ ~closedC /\ Len(C) < CapC
          /\ C' = Append(C, rowS)
          /\ pcS' = "drain"
    /\ UNCHANGED <<storeVars, filter, getVars, scanned, pushedB, closedC, closerC, backlog, closedB, doneClosed,
                   Err, hrows, hpos, histOpen, rowS, notVars, notifyQ, received,
                   closeVars, foreign, faulted>>

\* julio.go 212: defer close(r.C), run when selectloop returns; its locals
\* (rows, row) die with it, the handle behind rows does not
S_Exit ==
    /\ pcS = "ret"
    /\ IF closedC
       THEN /\ pcS' = "panic"
            /\ UNCHANGED <<closedC, closerC>>
       ELSE /\ closedC' = TRUE
            /\ closerC' = "selectloop"
            /\ pcS' = "done"
    /\ hrows' = <<>> /\ hpos' = 1 /\ rowS' = NoRow
    /\ UNCHANGED <<storeVars, filter, getVars, scanned, pushedB, C, backlog, closedB, doneClosed, Err,
                   histOpen, notVars, notifyQ, received, closeVars, foreign,
                   faulted>>

SelectStep == S_Query \/ S_Next \/ S_PushC \/ S_Drain \/ S_DrainPush \/ S_Exit

(* ---------------------- notifyloop (LiveTailListener) ------------------- *)
\* julio.go 127-131: nothing to do without Filter.Updates
N_NoUpdates_Listens ==
    /\ pcN = "start"
    /\ ~filter.Updates
    /\ listener' = "listening"
    /\ pcN' = "loop"
    /\ UNCHANGED <<storeVars, filter, getVars, scanned, pushedB, C, closedC, closerC,
                   backlog, closedB, doneClosed, Err, selVars, notifyQ, lrows, lpos,
                   liveOpen, event, received, closeVars, foreign, faulted>>

N_NoUpdates ==
    /\ pcN = "start"
    /\ ~filter.Updates
    /\ pcN' = "ret"
    /\ UNCHANGED <<storeVars, filter, getVars, scanned, pushedB, C, closedC, closerC, backlog, closedB,
                   doneClosed, Err, selVars, listener, notifyQ, lrows, lpos, liveOpen,
                   event, received, closeVars, foreign, faulted>>

\* julio.go 137-147: pq.NewListener, listener.Listen; defer listener.Close()
\* is registered only when Listen succeeded
N_Listen ==
    /\ pcN = "start"
    /\ filter.Updates
    /\ \E ok \in BOOLEAN :
        IF ok
        THEN /\ listener' = "listening"
             /\ pcN' = "loop"
             /\ UNCHANGED <<Err, faulted>>
        ELSE /\ listener' = "failed"
             /\ Err' = "N_listen"
             /\ faulted' = TRUE
             /\ pcN' = "ret"
    /\ UNCHANGED <<storeVars, filter, getVars, scanned, pushedB, C, closedC, closerC, backlog, closedB,
                   doneClosed, selVars, notifyQ, lrows, lpos, liveOpen, event,
                   received, closeVars, foreign>>

\* julio.go 149-151: select, case <-r.done. When a notification is ready too
\* the select takes either case. The third case, time.After(90s), starts
\* listener.Ping() in a goroutine of its own and changes nothing of the cursor.
N_Cancel ==
    /\ pcN = "loop"
    /\ doneClosed
    /\ pcN' = "ret"
    /\ UNCHANGED <<storeVars, filter, getVars, scanned, pushedB, C, closedC, closerC, backlog, closedB,
                   doneClosed, Err, selVars, listener, notifyQ, lrows, lpos, liveOpen,
                   event, received, closeVars, foreign, faulted>>

\* julio.go 153-179: select, case n := <-listener.Notify; parse the payload,
\* build and run the re-check query; defer rows.Close()
N_Notification_WithOffset ==
    /\ pcN = "loop"
    /\ notifyQ # <<>>
    /\ notifyQ' = Tail(notifyQ)
    /\ LET a == Atoi(Head(notifyQ))
       IN  IF ~a.ok
           THEN /\ Err' = "N_atoi"
                /\ pcN' = "ret"
                /\ UNCHANGED <<lrows, lpos, liveOpen, faulted>>
           ELSE \E out \in {"ok", "tosql", "query"} :
                IF out = "ok"
                THEN /\ lrows' = Tagged(SkipRows(QueryById(table, a.val, filter.Pred),
                                                 filter.Offset), "live")
                     /\ lpos' = 1
                     /\ liveOpen' = liveOpen + 1
                     /\ pcN' = "iter"
                     /\ UNCHANGED <<Err, faulted>>
                ELSE /\ Err' = IF out = "tosql" THEN "N_tosql" ELSE "N_query"
                     /\ faulted' = TRUE
                     /\ pcN' = "ret"
                     /\ UNCHANGED <<lrows, lpos, liveOpen>>
    /\ UNCHANGED <<storeVars, filter, getVars, scanned, pushedB, C, closedC, closerC,
                   backlog, closedB, doneClosed, selVars, listener, event, received,
                   closeVars, foreign>>

N_Notification_SkipsBad ==
    /\ pcN = "loop"
    /\ notifyQ # <<>>
    /\ notifyQ' = Tail(notifyQ)
    /\ LET a == Atoi(Head(notifyQ))
       IN  IF ~a.ok
           THEN /\ pcN' = "loop"
                /\ UNCHANGED <<Err, lrows, lpos, liveOpen, faulted>>
           ELSE \E out \in {"ok", "tosql", "query"} :
                IF out = "ok"
                THEN /\ lrows' = Tagged(QueryById(table, a.val, filter.Pred), "live")
                     /\ lpos' = 1
                     /\ liveOpen' = liveOpen + 1
                     /\ pcN' = "iter"
                     /\ UNCHANGED <<Err, faulted>>
                ELSE /\ Err' = IF out = "tosql" THEN "N_tosql" ELSE "N_query"
                     /\ faulted' = TRUE
                     /\ pcN' = "ret"
                     /\ UNCHANGED <<lrows, lpos, liveOpen>>
    /\ UNCHANGED <<storeVars, filter, getVars, scanned, pushedB, C, closedC, closerC,
                   backlog, closedB, doneClosed, selVars, listener, event, received,
                   closeVars, foreign>>

N_Notification ==
    /\ pcN = "loop"
    /\ notifyQ # <<>>
    /\ notifyQ' = Tail(notifyQ)
    /\ LET a == Atoi(Head(notifyQ))
       IN  IF ~a.ok
           THEN /\ Err' = "N_atoi"
                /\ pcN' = "ret"
                /\ UNCHANGED <<lrows, lpos, liveOpen, faulted>>
           ELSE \E out \in {"ok", "tosql", "query"} :
                IF out = "ok"
                THEN /\ lrows' = Tagged(QueryById(table, a.val, filter.Pred), "live")
                     /\ lpos' = 1
                     /\ liveOpen' = liveOpen + 1
                     /\ pcN' = "iter"
                     /\ UNCHANGED <<Err, faulted>>
                ELSE /\ Err' = IF out = "tosql" THEN "N_tosql" ELSE "N_query"
                     /\ faulted' = TRUE
                     /\ pcN' = "ret"
                     /\ UNCHANGED <<lrows, lpos, liveOpen>>
    /\ UNCHANGED <<storeVars, filter, getVars, scanned, pushedB, C, closedC, closerC, backlog, closedB,
                   doneClosed, selVars, listener, event, received, closeVars, foreign>>

\* julio.go 180-186 and 194-199: rows.Next(), rows.Scan(), rows.Err();
\* a rows.Next() that returns false closes the handle
N_Iter ==
    /\ pcN = "iter"
    /\ \E out \in {"row", "scanErr", "end", "rowsErr"} :
        /\ out \in {"row", "scanErr"} => lpos <= Len(lrows)
        /\ out = "end" => lpos > Len(lrows)
        /\ CASE out = "row" ->
                  /\ event' = lrows[lpos]
                  /\ lpos' = lpos + 1
                  /\ pcN' = "pushB"
                  /\ UNCHANGED <<Err, faulted, liveOpen>>
             [] out = "scanErr" ->
                  /\ Err' = "N_scan"
                  /\ faulted' = TRUE
                  /\ pcN' = "ret"
                  /\ UNCHANGED <<event, lpos, liveOpen>>
             [] out = "end" ->
                  /\ liveOpen' = liveOpen - 1
                  /\ pcN' = "loop"
                  /\ UNCHANGED <<Err, faulted, event, lpos>>
             [] out = "rowsErr" ->
                  /\ liveOpen' = liveOpen - 1
                  /\ Err' = "N_rows"
                  /\ faulted' = TRUE
                  /\ pcN' = "ret"
                  /\ UNCHANGED <<event, lpos>>
    /\ UNCHANGED <<storeVars, filter, getVars, scanned, pushedB, C, closedC, closerC, backlog, closedB,
                   doneClosed, selVars, listener, notifyQ, lrows, received, closeVars,
                   foreign>>

\* julio.go 188-192: select { case r.backlog <- event: ; case <-r.done: return }
N_PushB_Direct ==
    /\ pcN = "pushB"
    /\ \/ /\ ~closedC /\ Len(C) < CapC
          /\ C' = Append(C, event)
          /\ pcN' = "iter"
       \/ /\ doneClosed
          /\ pcN' = "ret"
          /\ UNCHANGED C
    /\ UNCHANGED <<storeVars, filter, getVars, scanned, pushedB, closedC, closerC, backlog, closedB, doneClosed,
                   Err, selVars, listener, notifyQ, lrows, lpos, liveOpen, event,
                   received, closeVars, foreign, faulted>>

N_PushB ==
    /\ pcN = "pushB"
    /\ \/ /\ closedB
          /\ pcN' = "panic"
          /\ UNCHANGED <<backlog, pushedB>>
       \/ /\ ~closedB /\ Len(backlog) < CapB
          /\ backlog' = Append(backlog, event)
          /\ pushedB' = Append(pushedB, event)
          /\ pcN' = "iter"
       \/ /\ doneClosed
          /\ pcN' = "ret"
          /\ UNCHANGED <<backlog, pushedB>>
    /\ UNCHANGED <<storeVars, filter, getVars, scanned, C, closedC, closerC, closedB, doneClosed, Err,
                   selVars, listener, notifyQ, lrows, lpos, liveOpen, event, received,
                   closeVars, foreign, faulted>>

\* julio.go 179, 147, 128: the deferred calls, run when notifyloop returns:
\* rows.Close() of every re-check, listener.Close() (which ends the Notify
\* channel), close(r.backlog); the locals die with the goroutine
N_Exit ==
    /\ pcN = "ret"
    /\ liveOpen' = 0
    /\ listener' = IF listener = "listening" THEN "closed" ELSE listener
    /\ IF closedB
       THEN /\ pcN' = "panic"
            /\ UNCHANGED closedB
       ELSE /\ closedB' = TRUE
            /\ pcN' = "done"
    /\ notifyQ' = IF listener = "listening" THEN <<>> ELSE notifyQ
    /\ lrows' = <<>> /\ lpos' = 1 /\ event' = NoRow
    /\ UNCHANGED <<storeVars, filter, getVars, scanned, pushedB, C, closedC, closerC, backlog, doneClosed, Err,
                   selVars, received, closeVars, foreign, faulted>>

NotifyStep == N_NoUpdates \/ N_Listen \/ N_Cancel \/ N_Notification \/ N_Iter
                  \/ N_PushB \/ N_Exit

(* ------------------------------ Rows.Close ----------------------------- *)
\* julio.go 257-260: defer func() { recover() }(); close(r.done)
Close_NoRecover ==
    /\ closeCalls < MaxCloseCalls
    /\ closeCalls' = closeCalls + 1
    /\ closedEarly' = (closedEarly \/ (~doneClosed /\ pcS \in {"query", "next", "push"}))
    /\ IF doneClosed
       THEN /\ escaped' = TRUE
            /\ UNCHANGED <<doneClosed, closePanics>>
       ELSE /\ doneClosed' = TRUE
            /\ UNCHANGED <<closePanics, escaped>>
    /\ UNCHANGED <<storeVars, filter, getVars, scanned, pushedB, C, closedC, closerC, backlog, closedB, Err,
                   selVars, notVars, notifyQ, received, foreign, faulted>>

Close_ClosesOutput ==
    /\ closeCalls < MaxCloseCalls
    /\ closeCalls' = closeCalls + 1
    /\ closedEarly' = (closedEarly \/ (~doneClosed /\ pcS \in {"query", "next", "push"}))
    /\ IF doneClosed
       THEN /\ closePanics' = closePanics + 1
            /\ UNCHANGED <<doneClosed, closedC, closerC>>
       ELSE /\ doneClosed' = TRUE
            /\ closedC' = TRUE
            /\ closerC' = IF closedC THEN closerC ELSE "Close"
            /\ UNCHANGED closePanics
    /\ UNCHANGED <<storeVars, filter, getVars, scanned, pushedB, C, backlog, closedB, Err, selVars, notVars,
                   notifyQ, received, foreign, faulted, escaped>>

Close_ClosesBacklog ==
    /\ closeCalls < MaxCloseCalls
    /\ closeCalls' = closeCalls + 1
    /\ closedEarly' = (closedEarly \/ (~doneClosed /\ pcS \in {"query", "next", "push"}))
    /\ IF doneClosed
       THEN /\ closePanics' = closePanics + 1
            /\ UNCHANGED <<doneClosed, closedB>>
       ELSE /\ doneClosed' = TRUE
            /\ closedB' = TRUE
            /\ UNCHANGED closePanics
    /\ UNCHANGED <<storeVars, filter, getVars, scanned, pushedB, C, closedC, closerC,
                   backlog, Err, selVars, notVars, notifyQ, received, foreign, faulted,
                   escaped>>

Close ==
    /\ closeCalls < MaxCloseCalls
    /\ closeCalls' = closeCalls + 1
    /\ closedEarly' = (closedEarly \/ (~doneClosed /\ pcS \in {"query", "next", "push"}))
    /\ IF doneClosed
       THEN /\ closePanics' = closePanics + 1
            /\ UNCHANGED doneClosed
       ELSE /\ doneClosed' = TRUE
            /\ UNCHANGED closePanics
    /\ UNCHANGED <<storeVars, filter, getVars, scanned, pushedB, C, closedC, closerC, backlog, closedB, Err,
                   selVars, notVars, notifyQ, received, foreign, faulted, escaped>>

(* ------------------------------ environment ---------------------------- *)
\* the consumer: row := <-rows.C
Consume ==
    /\ C # <<>>
    /\ received' = Append(received, Head(C))
    /\ C' = Tail(C)
    /\ UNCHANGED <<storeVars, filter, getVars, scanned, pushedB, closedC, closerC, backlog, closedB, doneClosed,
                   Err, selVars, notVars, notifyQ, closeVars, foreign, faulted>>

InDrain == pcS \in {"drain", "drainpush"}

\* julio.go 74-93 (Add) and 43-63 (the insert trigger): store the document
\* under the next id and notify the id's text to the subscribed listener
Insert_NotifiesTwice ==
    /\ Cardinality(table) < MaxRows
    /\ \E v \in 1..MaxData :
        LET id == Cardinality(table) + 1
            live == filter.Updates /\ InDrain /\ ~doneClosed /\ ~faulted
        IN  /\ table' = table \cup {[ID |-> id, Data |-> Marshal(v)]}
            /\ notifyQ' = IF listener = "listening"
                          THEN notifyQ \o <<Itoa(id), Itoa(id)>> ELSE notifyQ
            /\ insDrain' = IF live THEN insDrain \cup {id} ELSE insDrain
            /\ insSub' = IF live /\ listener = "listening"
                         THEN insSub \cup {id} ELSE insSub
    /\ UNCHANGED <<snapN, filter, getVars, scanned, pushedB, C, closedC, closerC,
                   backlog, closedB, doneClosed, Err, selVars, notVars, received,
                   closeVars, foreign, faulted>>

Insert ==
    /\ Cardinality(table) < MaxRows
    /\ \E v \in 1..MaxData :
        LET id == Cardinality(table) + 1
            live == filter.Updates /\ InDrain /\ ~doneClosed /\ ~faulted
        IN  /\ table' = table \cup {[ID |-> id, Data |-> Marshal(v)]}
            /\ notifyQ' = IF listener = "listening"
                          THEN Append(notifyQ, Itoa(id)) ELSE notifyQ
            /\ insDrain' = IF live THEN insDrain \cup {id} ELSE insDrain
            /\ insSub' = IF live /\ listener = "listening"
                         THEN insSub \cup {id} ELSE insSub
    /\ UNCHANGED <<snapN, filter, getVars, scanned, pushedB, C, closedC, closerC, backlog, closedB, doneClosed,
                   Err, selVars, notVars, received, closeVars, foreign, faulted>>

\* payloads another session can publish on the table's channel
ForeignPayloads == {<<"x">>}

\* julio.go 45, 141: the channel julio_notify_<table> is an ordinary
\* notification channel; any session may NOTIFY on it with any payload
ForeignNotify ==
    /\ foreign < MaxForeign
    /\ listener = "listening"
    /\ \E p \in ForeignPayloads :
        /\ notifyQ' = Append(notifyQ, p)
        /\ faulted' = (faulted \/ ~Atoi(p).ok)
    /\ foreign' = foreign + 1
    /\ UNCHANGED <<storeVars, filter, getVars, scanned, pushedB, C, closedC, closerC, backlog, closedB,
                   doneClosed, Err, selVars, notVars, received, closeVars>>

\* julio.go 95-109: Get called again with the same filter, after the consumer
\* has read the previous cursor to its close, without error and without
\* Close(): a new Rows with new channels and two new goroutines. The
\* previous cursor's goroutines are gone and it shares only the table with
\* the new one.
Get ==
    /\ gets < MaxGets
    /\ ~filter.Updates
    /\ closedC /\ C = <<>> /\ pcS = "done" /\ pcN = "done"
    /\ Err = "nil" /\ closeCalls = 0
    /\ gets' = gets + 1
    /\ prevOut' = received
    /\ prevSnapN' = snapN
    /\ closedC' = FALSE /\ closerC' = "none"
    /\ backlog' = <<>> /\ closedB' = FALSE
    /\ pcS' = "query" /\ pcN' = "start"
    /\ received' = <<>>
    /\ snapN' = 0 /\ scanned' = FALSE /\ pushedB' = <<>>
    /\ UNCHANGED <<table, insDrain, insSub, filter, C, doneClosed, Err, hrows, hpos,
                   histOpen, rowS, listener, notifyQ, lrows, lpos, liveOpen, event,
                   closeVars, foreign, faulted>>

Next == SelectStep \/ NotifyStep \/ Close \/ Consume \/ Insert \/ ForeignNotify

Spec == Init /\ [][Next]_vars

\* no store operation has failed and no malformed payload was published
NoFault == ~faulted

\* the cursor left alone: no fault and no Close()
Quiet == ~faulted /\ ~doneClosed

\* the steps of Next in which no store operation fails
CancelNext ==
    \/ SelectStep /\ NoFault'
    \/ NotifyStep /\ NoFault'
    \/ Close
    \/ Consume
    \/ Insert

\* the program without faults. The Go scheduler runs every goroutine that
\* can take a step; the consumer is free to stop reading.
CancelSpec ==
    /\ Init /\ [][CancelNext]_vars
    /\ WF_vars(SelectStep /\ NoFault')
    /\ WF_vars(NotifyStep /\ NoFault')

\* the steps of Next in which no store operation fails and Close() is not
\* called
QuietNext ==
    \/ SelectStep /\ Quiet'
    \/ NotifyStep /\ Quiet'
    \/ Consume
    \/ Insert

\* the program without faults and without Close(), with a consumer that
\* keeps reading Rows.C
QuietSpec ==
    /\ Init /\ [][QuietNext]_vars
    /\ WF_vars(SelectStep /\ Quiet')
    /\ WF_vars(NotifyStep /\ Quiet')
    /\ WF_vars(Consume)

\* Close() has not been called
Unattended == ~doneClosed

\* the steps of Next when Close() is not called; store operations may fail
\* and foreign payloads may arrive
UnattendedNext ==
    \/ SelectStep /\ Unattended'
    \/ NotifyStep /\ Unattended'
    \/ Consume
    \/ Insert
    \/ ForeignNotify

\* the program whose caller never calls Close() and keeps reading Rows.C;
\* store operations may fail
UnattendedSpec ==
    /\ Init /\ [][UnattendedNext]_vars
    /\ WF_vars(SelectStep /\ Unattended')
    /\ WF_vars(NotifyStep /\ Unattended')
    /\ WF_vars(Consume)

\* the program with a caller that may call Get again
RepeatNext == Next \/ Get

RepeatSpec == Init /\ [][RepeatNext]_vars

(* ------------------------------- claims -------------------------------- *)
\* everything that has entered the output channel, oldest first
Out == received \o C

Terminated == closedC /\ pcS = "done" /\ pcN = "done"

\* C1: after Close(), whether or not the consumer keeps reading, the output
\* channel is eventually closed and both goroutines eventually terminate.
C1_CloseTerminates == doneClosed ~> Terminated

\* C2: for a filter without Updates, once the output is closed and drained
\* (no error, no Close), the rows read are exactly the rows of the table that
\* match the predicate, without the Offset matches of smallest id, in
\* strictly ascending id order.
C2_NonLiveDrain ==
    (~filter.Updates /\ closedC /\ C = <<>> /\ Err = "nil" /\ ~doneClosed) =>
        LET snap == {r \in table : r.ID <= snapN}
            M    == {r \in snap : Match(r, filter.Pred)}
            kept == {r \in M : Cardinality({q \in M : q.ID < r.ID}) >= filter.Offset}
            out  == Untagged(received)
        IN  /\ \A i, j \in 1..Len(out) : i < j => out[i].ID < out[j].ID
            /\ {out[i] : i \in 1..Len(out)} = kept

C2_Witness ==
    /\ ~filter.Updates /\ closedC /\ C = <<>> /\ Err = "nil" /\ ~doneClosed
    /\ filter.Offset = 1
    /\ snapN = 2
    /\ Len(received) = 1

\* C3: once Err holds an error, no later error replaces it.
C3_FirstWriteWins == [][Err # "nil" => Err' = Err]_vars

\* C4: once the output channel is closed, Err no longer changes.
C4_ErrFinalAfterClose == [][closedC => Err' = Err]_vars

\* C5: if no store operation failed and no malformed payload was published,
\* Err is nil when the output channel is closed, cancelled or not.
C5_CancelNotError == (closedC /\ ~faulted) => Err = "nil"

C5_Witness ==
    /\ closedC /\ ~faulted /\ doneClosed /\ Err = "nil"
    /\ histOpen
    /\ received # <<>>

\* C6: Close() sets the cancellation signal on its first call only; the
\* signal stays set; a call made when it is set changes nothing of the cursor;
\* no panic leaves Close().
C6_CloseIdempotent ==
    /\ [][/\ doneClosed => doneClosed'
          /\ (closeCalls' # closeCalls /\ ~doneClosed) => doneClosed'
          /\ (closeCalls' # closeCalls /\ doneClosed) => cursorVars' = cursorVars]_vars
    /\ [](~escaped)

C6_Witness == closeCalls = 2 /\ closePanics = 1 /\ doneClosed /\ ~escaped

\* C7: rows found by notifyloop enter the output only through selectloop's
\* drain, which starts after the historical scan has ended: in the output a
\* row of the historical scan never follows a row of the re-check.
C7_HistBeforeDrain ==
    /\ \A i, j \in 1..Len(Out) :
          i < j => ~(Out[i].origin = "live" /\ Out[j].origin = "hist")
    /\ (\E i \in 1..Len(Out) : Out[i].origin = "live")
          => pcS \notin {"query", "next", "push"}
    /\ \A i \in 1..Len(backlog) : backlog[i].origin = "live"

C7_Witness ==
    \E i, j \in 1..Len(Out) :
        i < j /\ Out[i].origin = "hist" /\ Out[j].origin = "live"

\* the consumer has read row id with the Data the table holds for it
Delivered(id) ==
    \E i \in 1..Len(received) :
        /\ received[i].ID = id
        /\ [ID |-> id, Data |-> received[i].Data] \in table

MatchesId(id) == \E r \in table : r.ID = id /\ Match(r, filter.Pred)

\* C8 (as claimed): every matching document inserted while selectloop is in
\* its drain phase is eventually delivered, unless a fault or Close() occurs.
C8_DrainInsertDelivered ==
    \A id \in 1..MaxRows :
        (id \in insDrain /\ MatchesId(id)) ~> (Delivered(id) \/ faulted \/ doneClosed)

\* C8 (amended): every matching document inserted while selectloop is in its
\* drain phase and notifyloop's subscription is established is eventually
\* delivered with its id and Data, unless a fault or Close() occurs.
C8_SubscribedInsertDelivered ==
    \A id \in 1..MaxRows :
        (id \in insSub /\ MatchesId(id)) ~> (Delivered(id) \/ faulted \/ doneClosed)

C8_Witness ==
    \E id \in insSub :
        MatchesId(id) /\ Delivered(id) /\ ~faulted /\ ~doneClosed

\* C9: the output channel is closed by selectloop's return only, stays
\* closed, and takes no row once closed.
C9_OutputClosedOnce ==
    /\ [][/\ closedC => (closedC' /\ (C' = C \/ C' = Tail(C)))
          /\ (~closedC /\ closedC') => (pcS = "ret" /\ pcS' = "done")]_vars
    /\ [](closerC \in {"none", "selectloop"})
    /\ [](pcS # "panic")

C9_Witness ==
    closedC /\ closerC = "selectloop" /\ pcS = "done" /\ received # <<>> /\ C = <<>>

\* C10: after Close(), once both goroutines have terminated, every query
\* handle is closed and the subscription is gone.
C10_ResourcesReleased ==
    (doneClosed /\ pcS = "done" /\ pcN = "done") =>
        (~histOpen /\ liveOpen = 0 /\ listener # "listening")

\* C11: once the output channel is closed, both goroutines eventually
\* terminate without any further call by the caller.
C11_ClosedThenTerminated == closedC ~> (pcS = "done" /\ pcN = "done")

\* C12: every row that has entered the output channel, that is buffered in
\* the backlog or that a goroutine holds to send satisfies the filter's
\* predicate; the re-check of a notified id that does not match returns no row.
C12_OnlyMatching ==
    /\ \A i \in 1..Len(Out) : Match(Out[i], filter.Pred)
    /\ \A i \in 1..Len(backlog) : Match(backlog[i], filter.Pred)
    /\ \A i \in 1..Len(lrows) : Match(lrows[i], filter.Pred)
    /\ pcN = "pushB" => Match(event, filter.Pred)
    /\ pcS \in {"push", "drainpush"} => Match(rowS, filter.Pred)

C12_Witness ==
    /\ \E id \in insSub : ~MatchesId(id)
    /\ notifyQ = <<>> /\ pcN = "loop" /\ lrows = <<>> /\ backlog = <<>>
    /\ \E i \in 1..Len(received) : received[i].origin = "live"
    /\ Err = "nil"

\* C13: for a filter without Updates, when two successive Get calls with the
\* same filter are each read to the close without error and without Close(),
\* and the table held the same rows at both historical queries, the consumer
\* read the same rows (ID and Data) in the same order from both.
C13_RepeatableRead ==
    (/\ gets = 2 /\ ~filter.Updates
     /\ closedC /\ C = <<>> /\ pcS = "done" /\ Err = "nil" /\ ~doneClosed
     /\ snapN = prevSnapN)
        => Untagged(received) = Untagged(prevOut)

C13_Witness ==
    /\ gets = 2 /\ ~filter.Updates
    /\ closedC /\ C = <<>> /\ pcS = "done" /\ Err = "nil" /\ ~doneClosed
    /\ snapN = prevSnapN
    /\ Len(received) = 2 /\ Len(prevOut) = 2

\* C14: the backlog channel is closed by notifyloop's return only, never by
\* Close(); it stays closed, takes no row once closed (rows already buffered
\* may still be received), and no close or send on the closed channel panics.
C14_BacklogClosedOnce ==
    /\ [][/\ closedB => (closedB' /\ (backlog' = backlog \/ backlog' = Tail(backlog)))
          /\ (~closedB /\ closedB') => (pcN = "ret" /\ pcN' = "done")]_vars
    /\ [](pcN # "panic")

C14_Witness ==
    /\ closedB /\ pcN = "done" /\ doneClosed /\ filter.Updates
    /\ listener = "closed" /\ pushedB # <<>>

\* C15: when the first Close() comes before selectloop has reached its drain
\* loop, selectloop forwards no backlog row to the output channel afterwards.
C15_NoDrainAfterEarlyClose ==
    [][closedEarly => ~(pcS = "drainpush" /\ C' = Append(C, rowS))]_vars

\* C16: with Updates false notifyloop never subscribes and never sends on the
\* backlog; with no fault, no Close() and a consumer that keeps reading, the
\* backlog and the output channel are eventually closed and both goroutines
\* terminate, Close() not having been called.
C16_NonLiveFinishes ==
    /\ [](~filter.Updates => (listener = "none" /\ notifyQ = <<>> /\ pushedB = <<>>))
    /\ ~filter.Updates ~> (Terminated /\ closedB /\ ~doneClosed)

C16_Witness ==
    /\ ~filter.Updates /\ Terminated /\ closedB /\ ~doneClosed
    /\ listener = "none" /\ closeCalls = 0
    /\ Len(received) = 2 /\ C = <<>>

\* C17: when notifyloop receives a payload that is not a decimal integer it
\* stores the error in Err and returns without sending on the backlog; once
\* it is returning it sends nothing more; the backlog and then, with a
\* consumer that keeps reading and no Close(), the output channel are
\* eventually closed, Err being non-nil.
C17_MalformedPayload ==
    /\ [][(/\ pcN = "loop"
           /\ notifyQ # <<>> /\ notifyQ' = Tail(notifyQ)
           /\ ~Atoi(Head(notifyQ)).ok)
             => (Err' = "N_atoi" /\ pcN' = "ret" /\ pushedB' = pushedB)]_vars
    /\ [][(pcN \in {"ret", "done"})
             => (pushedB' = pushedB /\ pcN' \in {"ret", "done"})]_vars
    /\ (Err = "N_atoi") ~> (closedB /\ closedC /\ Err # "nil")

C17_Witness ==
    /\ Err = "N_atoi" /\ closedB /\ closedC /\ ~doneClosed
    /\ pcS = "done" /\ pcN = "done"
    /\ scanned /\ pushedB # <<>> /\ C = <<>>

\* C18: two rows of the output that carry the same ID come one from the
\* historical scan and one from the re-check, and carry the same Data; so an
\* ID occurs at most once per phase and at most twice in the stream.
C18_AtMostTwice ==
    \A i, j \in 1..Len(Out) :
        (i # j /\ Out[i].ID = Out[j].ID) =>
            (Out[i].origin # Out[j].origin /\ Out[i].Data = Out[j].Data)

C18_Witness ==
    \E i, j \in 1..Len(received) :
        /\ i < j /\ received[i].ID = received[j].ID
        /\ received[i].origin = "hist" /\ received[j].origin = "live"
        /\ received[i].Data = received[j].Data

\* the rows of the output that came through the backlog, oldest first
LiveOut == SelectSeq(Out, LAMBDA r : r.origin = "live")

\* the backlog row selectloop has received and not yet sent
Held == IF pcS = "drainpush" THEN <<rowS>> ELSE <<>>

\* C19: the rows sent on the backlog are, in the order sent, the rows already
\* forwarded to the output, then the row selectloop holds, then the rows still
\* buffered; and when the historical scan ended without error, all of them
\* have been forwarded by the time the output channel is closed, Close() or
\* not.
C19_BacklogForwardedFifo ==
    /\ pushedB = LiveOut \o Held \o backlog
    /\ (scanned /\ closedC) => LiveOut = pushedB

C19_Witness ==
    /\ scanned /\ closedC /\ doneClosed /\ ~closedEarly
    /\ Len(pushedB) = 2 /\ pushedB[1].ID # pushedB[2].ID
    /\ C = <<>>

\* C20: with a positive Offset, every matching document inserted in the drain
\* phase with the subscription established is sent on the backlog and
\* delivered (no fault, no Close(), consumer reading): the Offset skips rows
\* of the historical query only.
C20_OffsetHistoricalOnly ==
    \A id \in 1..MaxRows :
        (filter.Offset > 0 /\ id \in insSub /\ MatchesId(id))
            ~> ((\E i \in 1..Len(pushedB) : pushedB[i].ID = id) /\ Delivered(id))

C20_Witness ==
    /\ filter.Offset = 1 /\ scanned /\ snapN = 0
    /\ insSub = {1, 2} /\ MatchesId(1) /\ MatchesId(2)
    /\ Len(received) = 2
    /\ received[1].ID = 1 /\ received[2].ID = 2
    /\ received[1].origin = "live" /\ received[2].origin = "live"

====
